---- MODULE Spec2Model ----
(***************************************************************************)
(* Mayomide Store Price Manager (app.py): the Supabase tables written by   *)
(* the script, and the runs of the Streamlit script in one or two operator *)
(* sessions.  A run receives the widget state of its request (the values   *)
(* of the widgets of the page and the buttons pressed), loads the tables,  *)
(* evaluates the page and performs the database writes it asks for.        *)
(*                                                                         *)
(* Abstractions: prices are small integers; categories, product names,     *)
(* units, images, the search box and the note field are left out (no       *)
(* write depends on them); fetch_tables is one atomic read; timestamps     *)
(* count the rows of price_history written so far.                       *)
(***************************************************************************)
EXTENDS Integers, Sequences, FiniteSets, TLC

MaxPrice == 2
MaxHistory == 2
MaxProducts == 2

min_value == 0

AllSessions == {"A", "B"}
Candidates == {"", "a", "A", "a "}
Editors == {"You"}
Prices == 0..MaxPrice
Entries == {<<>>} \cup {<<v>> : v \in (-1)..MaxPrice}

Blocks == {"price", "history", "admin"}
NewPasswords == {"", "A"}

VARIABLES
    sessions,       \* the operator sessions that are open
    products,       \* table products: row id |-> row
    price_history,  \* table price_history, in insertion order
    app_settings,   \* table app_settings
    pc,             \* per session: where its script run stands
    pend,           \* per session: the writes its run still has to do
    page,           \* what the last step rendered, if it was a script run
    lastpw,         \* history: the password set by the latest password change
    created,        \* history: change_shared_password inserted the settings row
    orphans         \* history: price_history rows whose product update raised

vars == <<sessions, products, price_history, app_settings,
          pc, pend, page, lastpw, created, orphans>>

----------------------------------------------------------------------------
(* Helpers of the script *)

\* settings = s.data[0] if s.data else {"update_password": ""}
fetch_settings(rows) ==
    IF Len(rows) > 0 THEN rows[1] ELSE [update_password |-> <<"">>]

\* settings.get("update_password") or ""   (<<>> is a NULL column)
get_update_password(settings) ==
    IF settings.update_password = <<>> THEN ""
    ELSE settings.update_password[1]

\* if pw: if pw == update_password: ... else: "Access denied"
password_ok_any(candidate, update_password) == candidate # ""
password_ok_negated(candidate, update_password) ==
    candidate # "" /\ candidate # update_password
password_ok(candidate, update_password) ==
    candidate # "" /\ candidate = update_password

\* st.number_input(min_value=0.0, value=...): an entry below min_value is not
\* taken by the widget, which keeps its value
number_input_unchecked(minimum, value, entry) ==
    IF entry = <<>> THEN value ELSE entry[1]
number_input(minimum, value, entry) ==
    IF entry = <<>> \/ entry[1] < minimum THEN value ELSE entry[1]

RECURSIVE SortDesc(_)
\* order("timestamp", desc=True) / sort_values(by='timestamp', ascending=False)
SortDesc(rows) ==
    IF rows = <<>> THEN <<>>
    ELSE LET i == CHOOSE i \in DOMAIN rows :
                    \A j \in DOMAIN rows : rows[j].timestamp <= rows[i].timestamp
             rest == [k \in 1..(Len(rows) - 1) |-> IF k < i THEN rows[k] ELSE rows[k + 1]]
         IN <<rows[i]>> \o SortDesc(rest)

RECURSIVE Filter(_, _)
\* history_df[history_df['product_id'] == sel_id]
Filter(rows, id) ==
    IF rows = <<>> THEN <<>>
    ELSE (IF rows[1].product_id = id THEN <<rows[1]>> ELSE <<>>) \o Filter(Tail(rows), id)

\* round half to even of n/d, d > 0
RoundHalfEven(n, d) ==
    LET q == n \div d
        r == n % d
    IN IF 2 * r < d THEN q
       ELSE IF 2 * r > d THEN q + 1
       ELSE IF q % 2 = 0 THEN q ELSE q + 1

\* ((diff / old_price) * 100).round(2), in hundredths of a percent; float
\* division by zero gives inf (x/0) or NaN (0/0), no exception
pct_change(old_price, new_price) ==
    LET diff == new_price - old_price
    IN IF old_price = 0
       THEN (IF diff = 0 THEN [kind |-> "NaN", val |-> 0]
             ELSE [kind |-> "inf", val |-> IF diff > 0 THEN 1 ELSE -1])
       ELSE [kind |-> "num", val |-> RoundHalfEven(diff * 10000, old_price)]

view_row(h) ==
    [timestamp |-> h.timestamp, old_price |-> h.old_price, new_price |-> h.new_price,
     diff |-> h.new_price - h.old_price,
     pct_change |-> pct_change(h.old_price, h.new_price),
     updated_by |-> h.updated_by]

\* the "View Price History" table of product id
getHistory(rows, id) ==
    LET ph == SortDesc(Filter(SortDesc(rows), id))
    IN [k \in DOMAIN ph |-> view_row(ph[k])]

----------------------------------------------------------------------------
(* Writes *)

\* the time of the writes: price_history.timestamp (column default now()) and
\* datetime.utcnow(); two rows of price_history never share a timestamp
now == Len(price_history)

\* the row inserted by update_price step 1 (timestamp: column default now())
history_row_swapped(product_id, old_price, new_price, updated_by, ts) ==
    [product_id |-> product_id, old_price |-> new_price, new_price |-> old_price,
     updated_by |-> updated_by, timestamp |-> ts]
history_row(product_id, old_price, new_price, updated_by, ts) ==
    [product_id |-> product_id, old_price |-> old_price, new_price |-> new_price,
     updated_by |-> updated_by, timestamp |-> ts]

\* the fields set by update_price step 2
product_update_no_price(row, new_price, updated_by, ts) ==
    [row EXCEPT !.last_updated = ts, !.updated_by = updated_by]
product_update(row, new_price, updated_by, ts) ==
    [row EXCEPT !.current_price = new_price, !.last_updated = ts,
                !.updated_by = updated_by]

\* update_price: 1) append to price_history  2) update products table
update_price_order_swapped == <<"products", "price_history">>
update_price_order == <<"price_history", "products">>

\* one of the two writes of update_price(product_id, old_price, new_price, updated_by);
\* .eq("id", product_id) changes no row when the id is absent, and raises nothing
WriteTable(table, a) ==
    /\ IF table = "price_history"
       THEN /\ price_history' = Append(price_history,
                    history_row(a.product_id, a.old_price, a.new_price,
                                a.updated_by, now + 1))
            /\ UNCHANGED products
       ELSE /\ products' = [i \in DOMAIN products |->
                    IF i = a.product_id
                    THEN product_update(products[i], a.new_price, a.updated_by, now + 1)
                    ELSE products[i]]
            /\ UNCHANGED price_history

\* update existing row; if none exists, insert
change_shared_password_insert(rows, new_password) ==
    Append(rows, [update_password |-> <<new_password>>])
change_shared_password(rows, new_password) ==
    IF Len(rows) > 0
    THEN [rows EXCEPT ![1].update_password = <<new_password>>]
    ELSE Append(rows, [update_password |-> <<new_password>>])

----------------------------------------------------------------------------
(* State *)

NoPend == [price |-> <<>>, hid |-> 0, new_pw |-> "", add |-> <<>>]

Blank ==
    [session |-> "", sel |-> 0, upd |-> FALSE, pw |-> "", gate |-> "Locked",
     denied |-> FALSE, entry |-> <<>>, hist |-> FALSE, view |-> <<>>,
     admin_pw |-> "", admin |-> "none", err |-> FALSE, update_password |-> ""]

NoRequest ==
    [sel |-> 0, btn_update |-> FALSE, pw |-> "", entry |-> <<>>, who |-> "You",
     save |-> FALSE, btn_history |-> FALSE, admin_pw |-> "", new_pw |-> "",
     change |-> FALSE, add |-> FALSE, pprice |-> 0]

InitDb ==
    /\ \E p \in Prices :
          products = <<[current_price |-> p, updated_by |-> "Admin", last_updated |-> 0]>>
    /\ price_history = <<>>
    /\ app_settings \in {<<>>, <<[update_password |-> <<>>]>>,
                          <<[update_password |-> <<"">>]>>,
                          <<[update_password |-> <<"a">>]>>}
    /\ pc = [s \in AllSessions |-> "idle"]
    /\ pend = [s \in AllSessions |-> NoPend]
    /\ page = Blank
    /\ lastpw = ""
    /\ created = FALSE
    /\ orphans = {}

Init == sessions = {"A"} /\ InitDb

InitTwo == sessions \in {{"A"}, {"A", "B"}} /\ InitDb

\* price_history rows written or about to be written
Inserting == Cardinality({s \in AllSessions : pend[s].price # <<>> /\ pend[s].hid = 0})
Adding == Cardinality({s \in AllSessions : pend[s].add # <<>>})

\* the last step rendered no page that is still to be shown
Quiet == page.session = ""

AfterPrice(p) ==
    IF p.new_pw # "" THEN "chpw" ELSE IF p.add # <<>> THEN "add" ELSE "idle"

----------------------------------------------------------------------------
(* One run of the script for the request r of session s: lines 96-240 up to
   its first database write *)

RunScript(s, r) ==
    LET settings == fetch_settings(app_settings)
        update_password == get_update_password(settings)
        stopped == r.sel = 0                               \* st.stop()
        product_row == products[r.sel]
        unlocked == ~stopped /\ r.btn_update /\ password_ok(r.pw, update_password)
        denied == ~stopped /\ r.btn_update /\ r.pw # ""
                    /\ ~password_ok(r.pw, update_password)
        new_price == number_input(min_value, product_row.current_price, r.entry)
        saving == unlocked /\ r.save
        admin == IF stopped \/ r.admin_pw = "" THEN "none"
                 ELSE IF password_ok(r.admin_pw, update_password) THEN "granted"
                 ELSE "denied"
        changing == admin = "granted" /\ r.change /\ r.new_pw # ""
        adding == admin = "granted" /\ r.add
        p == [price |-> IF saving
                        THEN <<[product_id |-> r.sel,
                                old_price |-> product_row.current_price,
                                new_price |-> new_price,
                                updated_by |-> r.who]>>
                        ELSE <<>>,
              hid |-> 0,
              new_pw |-> IF changing THEN r.new_pw ELSE "",
              add |-> IF adding THEN <<r.pprice>> ELSE <<>>]
    IN /\ saving => Len(price_history) + Inserting < MaxHistory
       /\ adding => Len(products) + Adding < MaxProducts
       /\ pend' = [pend EXCEPT ![s] = p]
       /\ pc' = [pc EXCEPT ![s] = IF saving THEN "write1" ELSE AfterPrice(p)]
       /\ page' = [session |-> s,
                   sel |-> r.sel,
                   upd |-> ~stopped /\ r.btn_update,
                   pw |-> IF stopped THEN "" ELSE r.pw,
                   gate |-> IF unlocked THEN "Unlocked" ELSE "Locked",
                   denied |-> denied,
                   entry |-> IF unlocked THEN r.entry ELSE <<>>,
                   hist |-> ~stopped /\ r.btn_history,
                   view |-> IF ~stopped /\ r.btn_history
                            THEN getHistory(price_history, r.sel) ELSE <<>>,
                   admin_pw |-> IF stopped THEN "" ELSE r.admin_pw,
                   admin |-> admin,
                   err |-> FALSE,
                   update_password |-> update_password]
       /\ UNCHANGED <<sessions, products, price_history, app_settings,
                      lastpw, created, orphans>>

\* a request: the product chosen, and the widgets of one block of the page with
\* the buttons of that block pressed since the last run (presses that arrive
\* while a run is in progress reach the script in one request)
StartRun(s, blocks) ==
    /\ s \in sessions
    /\ Quiet
    /\ pc[s] = "idle"
    /\ \E sel \in {0} \cup DOMAIN products, blk \in blocks :
       \E btn_update \in (IF blk = "price" THEN BOOLEAN ELSE {FALSE}),
          pw \in (IF blk = "price" THEN Candidates ELSE {""}),
          btn_history \in {blk = "history"},
          admin_pw \in (IF blk = "admin" THEN Candidates ELSE {""}) :
       \E save \in (IF btn_update THEN BOOLEAN ELSE {FALSE}),
          entry \in (IF btn_update THEN Entries ELSE {<<>>}),
          change \in (IF admin_pw # "" THEN BOOLEAN ELSE {FALSE}),
          add \in (IF admin_pw # "" THEN BOOLEAN ELSE {FALSE}) :
       \E who \in (IF save THEN Editors ELSE {"You"}),
          new_pw \in (IF change THEN NewPasswords ELSE {""}),
          pprice \in (IF add THEN Prices ELSE {0}) :
          RunScript(s, [sel |-> sel, btn_update |-> btn_update, pw |-> pw,
                        entry |-> entry, who |-> who, save |-> save,
                        btn_history |-> btn_history, admin_pw |-> admin_pw,
                        new_pw |-> new_pw, change |-> change, add |-> add,
                        pprice |-> pprice])

\* update_price, first write
Write1(s) ==
    /\ Quiet
    /\ pc[s] = "write1"
    /\ WriteTable(update_price_order[1], pend[s].price[1])
    /\ pc' = [pc EXCEPT ![s] = "write2"]
    /\ pend' = [pend EXCEPT ![s].hid = Len(price_history')]
    /\ page' = Blank
    /\ UNCHANGED <<sessions, app_settings, lastpw, created, orphans>>

\* update_price, second write; update_price returns
Write2(s) ==
    /\ Quiet
    /\ pc[s] = "write2"
    /\ WriteTable(update_price_order[2], pend[s].price[1])
    /\ pc' = [pc EXCEPT ![s] = "returned"]
    /\ pend' = [pend EXCEPT ![s].hid = Len(price_history')]
    /\ page' = Blank
    /\ UNCHANGED <<sessions, app_settings, lastpw, created, orphans>>

\* the first write raises: except Exception -> st.error, the script goes on
Fail1(s) ==
    /\ Quiet
    /\ pc[s] = "write1"
    /\ pc' = [pc EXCEPT ![s] = AfterPrice(pend[s])]
    /\ pend' = [pend EXCEPT ![s].price = <<>>, ![s].hid = 0]
    /\ page' = [Blank EXCEPT !.session = s, !.err = TRUE]
    /\ UNCHANGED <<sessions, products, price_history, app_settings,
                   lastpw, created, orphans>>

\* the second write raises (or the run stops between the two writes)
Fail2(s) ==
    /\ Quiet
    /\ pc[s] = "write2"
    /\ pc' = [pc EXCEPT ![s] = AfterPrice(pend[s])]
    /\ pend' = [pend EXCEPT ![s].price = <<>>, ![s].hid = 0]
    /\ page' = [Blank EXCEPT !.session = s, !.err = TRUE]
    /\ orphans' = orphans \cup (IF pend[s].hid = 0 THEN {} ELSE {pend[s].hid})
    /\ UNCHANGED <<sessions, products, price_history, app_settings,
                   lastpw, created>>

\* st.experimental_rerun(): the script runs again for the same product, no
\* button pressed
Rerun(s) ==
    /\ Quiet
    /\ pc[s] = "returned"
    /\ RunScript(s, [NoRequest EXCEPT !.sel = pend[s].price[1].product_id])

\* admin: change_shared_password(new_pw)
ChangePassword(s) ==
    /\ Quiet
    /\ pc[s] = "chpw"
    /\ app_settings' = change_shared_password(app_settings, pend[s].new_pw)
    /\ lastpw' = pend[s].new_pw
    /\ created' = (created \/ Len(app_settings) = 0)
    /\ pc' = [pc EXCEPT ![s] = IF pend[s].add # <<>> THEN "add" ELSE "idle"]
    /\ pend' = [pend EXCEPT ![s].new_pw = ""]
    /\ page' = Blank
    /\ UNCHANGED <<sessions, products, price_history, orphans>>

\* admin: supabase.table("products").insert({...})
AddProduct(s) ==
    /\ Quiet
    /\ pc[s] = "add"
    /\ products' = Append(products, [current_price |-> pend[s].add[1],
                                     updated_by |-> "Admin", last_updated |-> now + 1])
    /\ pc' = [pc EXCEPT ![s] = "idle"]
    /\ pend' = [pend EXCEPT ![s].add = <<>>]
    /\ page' = Blank
    /\ UNCHANGED <<sessions, price_history, app_settings, lastpw, created, orphans>>

\* the page of the run is shown; the script keeps nothing until its next run
EndRun(s) ==
    /\ page.session = s
    /\ page' = Blank
    /\ UNCHANGED <<sessions, products, price_history, app_settings,
                   pc, pend, lastpw, created, orphans>>

Next ==
    \/ \E s \in AllSessions : StartRun(s, Blocks)
    \/ \E s \in AllSessions : EndRun(s)
    \/ \E s \in AllSessions : Write1(s)
    \/ \E s \in AllSessions : Write2(s)
    \/ \E s \in AllSessions : Fail1(s)
    \/ \E s \in AllSessions : Fail2(s)
    \/ \E s \in AllSessions : Rerun(s)
    \/ \E s \in AllSessions : ChangePassword(s)
    \/ \E s \in AllSessions : AddProduct(s)

\* one operator session, the whole page
Spec == Init /\ [][Next]_vars

NextTwo ==
    \/ \E s \in AllSessions : StartRun(s, {"price"})
    \/ \E s \in AllSessions : EndRun(s)
    \/ \E s \in AllSessions : Write1(s)
    \/ \E s \in AllSessions : Write2(s)
    \/ \E s \in AllSessions : Fail1(s)
    \/ \E s \in AllSessions : Fail2(s)
    \/ \E s \in AllSessions : Rerun(s)

\* one or two operator sessions editing prices on the same backend
SpecTwo == InitTwo /\ [][NextTwo]_vars

----------------------------------------------------------------------------
(* The functions update_price and change_shared_password called directly,
   with any arguments *)

ApiUpdatePrice ==
    /\ Quiet
    /\ pc["A"] = "idle"
    /\ Len(price_history) < MaxHistory
    /\ \E product_id \in 1..(Len(products) + 1), old_price \in Prices,
          new_price \in Prices, updated_by \in Editors :
          pend' = [pend EXCEPT !["A"] =
                      [NoPend EXCEPT !.price =
                          <<[product_id |-> product_id, old_price |-> old_price,
                             new_price |-> new_price, updated_by |-> updated_by]>>]]
    /\ pc' = [pc EXCEPT !["A"] = "write1"]
    /\ UNCHANGED <<sessions, products, price_history, app_settings, page,
                   lastpw, created, orphans>>

\* update_price has returned to its caller
ApiReturn ==
    /\ pc["A"] = "returned"
    /\ pc' = [pc EXCEPT !["A"] = "idle"]
    /\ pend' = [pend EXCEPT !["A"] = NoPend]
    /\ UNCHANGED <<sessions, products, price_history, app_settings, page,
                   lastpw, created, orphans>>

ApiChangePassword ==
    /\ Quiet
    /\ pc["A"] = "idle"
    /\ \E new_password \in Candidates \ {""} :
          /\ app_settings' = change_shared_password(app_settings, new_password)
          /\ lastpw' = new_password
    /\ created' = (created \/ Len(app_settings) = 0)
    /\ UNCHANGED <<sessions, products, price_history, pc, pend, page, orphans>>

InitApi == sessions = {"A"} /\ InitDb

NextApi ==
    \/ ApiUpdatePrice
    \/ ApiReturn
    \/ ApiChangePassword
    \/ Write1("A")
    \/ Write2("A")
    \/ Fail1("A")
    \/ Fail2("A")
    \/ EndRun("A")

SpecApi == InitApi /\ [][NextApi]_vars

----------------------------------------------------------------------------
(* Properties *)

\* the shared password as stored: none when the table is empty or the column NULL
StoredPassword ==
    IF Len(app_settings) = 0 \/ app_settings[1].update_password = <<>>
    THEN "" ELSE app_settings[1].update_password[1]

\* the last step was a run of the script for a selected product
Rendered == page.session # "" /\ ~page.err /\ page.sel # 0

\* rows i < j of the same product with no row of that product between them
Consecutive(i, j) ==
    /\ i \in DOMAIN price_history
    /\ j \in DOMAIN price_history
    /\ i < j
    /\ price_history[i].product_id = price_history[j].product_id
    /\ \A k \in (i + 1)..(j - 1) :
          price_history[k].product_id # price_history[i].product_id

SingleSession == Cardinality(sessions) = 1

\* C1: with one operator session, a changePrice that completes appends exactly
\* one row to price_history, which leads the product's history (newest first)
\* with old_price = the price the product held before the call and new_price =
\* newPrice, and then sets the product's current_price to newPrice.
C1_ChangePriceEffect ==
    [][\A s \in AllSessions :
        LET a == pend[s].price[1]
            h == getHistory(price_history', a.product_id)
        IN /\ (pc[s] = "write1" /\ pc'[s] = "write2") =>
                /\ Len(price_history') = Len(price_history) + 1
                /\ SubSeq(price_history', 1, Len(price_history)) = price_history
                /\ Len(h) = Len(getHistory(price_history, a.product_id)) + 1
                /\ h[1].timestamp = price_history'[Len(price_history')].timestamp
                /\ h[1].old_price = products[a.product_id].current_price
                /\ h[1].new_price = a.new_price
                /\ products' = products
           /\ (pc[s] = "write2" /\ pc'[s] = "returned") =>
                /\ products'[a.product_id].current_price = a.new_price
                /\ price_history' = price_history
                /\ h[1].old_price = products[a.product_id].current_price
                /\ h[1].new_price = a.new_price
                /\ a.new_price >= 0
      ]_vars

\* C1 witness: a changePrice to a different price has completed
C1_Witness ==
    \E s \in AllSessions :
        /\ pc[s] = "returned"
        /\ pend[s].price[1].new_price # pend[s].price[1].old_price
        /\ products[pend[s].price[1].product_id].current_price
             = pend[s].price[1].new_price

\* C2: no step changes a product's current_price to a value p unless a
\* price_history row of that product with new_price = p is already stored; and
\* a changePrice that fails between its two writes changes neither table: its
\* history row stays, the product row is as before the call.
C2_HistoryBeforeProduct ==
    [][/\ \A id \in DOMAIN products :
            products'[id].current_price # products[id].current_price =>
                \E i \in DOMAIN price_history :
                    /\ price_history[i].product_id = id
                    /\ price_history[i].new_price = products'[id].current_price
       /\ \A s \in AllSessions :
            (pc[s] = "write2" /\ pc'[s] \notin {"write2", "returned"}) =>
                /\ products' = products
                /\ price_history' = price_history
                /\ pend[s].hid \in DOMAIN price_history
                /\ price_history[pend[s].hid].product_id = pend[s].price[1].product_id
                /\ price_history[pend[s].hid].old_price = pend[s].price[1].old_price
                /\ price_history[pend[s].hid].new_price = pend[s].price[1].new_price
      ]_vars

\* C2 witness: a changePrice failed between its writes: its history row is
\* stored and the product still has the old price
C2_Witness ==
    /\ page.err
    /\ \E i \in orphans :
          /\ price_history[i].new_price # price_history[i].old_price
          /\ products[price_history[i].product_id].current_price
               = price_history[i].old_price

\* C3 as claimed: the gate (price edit and admin) accepts a candidate exactly
\* when it equals the stored password, the empty candidate and an empty or
\* absent stored password included.
C3_ExactEquality ==
    Rendered =>
        /\ page.upd => (page.gate = "Unlocked" <=> page.pw = StoredPassword)
        /\ page.admin = "granted" <=> page.admin_pw = StoredPassword

\* C3 amended: the gate compares with the password stored when the run loads
\* the tables, and accepts a candidate exactly when the candidate is not empty
\* and equals it character for character; nothing is accepted while the stored
\* password is empty or absent.
C3_NonEmptyExactEquality ==
    Rendered =>
        /\ page.update_password = StoredPassword
        /\ page.gate = "Unlocked" <=>
              (page.upd /\ page.pw # "" /\ page.pw = StoredPassword)
        /\ page.admin = "granted" <=>
              (page.admin_pw # "" /\ page.admin_pw = StoredPassword)
        /\ StoredPassword = "" => (page.gate = "Locked" /\ page.admin # "granted")

\* C3 witness: after a password change to "A", the candidate "A" is accepted
C3_Witness ==
    Rendered /\ lastpw = "A" /\ page.pw = "A" /\ page.gate = "Unlocked"

\* C4 as claimed: a run that carries the correct password shows the unlocked
\* price form, and a run that carries a wrong password shows the denial.
C4_PasswordSubmitted ==
    (Rendered /\ page.pw # "") =>
        /\ page.pw = StoredPassword => page.gate = "Unlocked"
        /\ page.pw # StoredPassword => page.denied

C6_AbsentIdFails ==
    /\ \A s \in AllSessions :
          pc[s] = "returned" => pend[s].price[1].product_id \in DOMAIN products
    /\ \A i \in DOMAIN price_history :
          price_history[i].product_id \in DOMAIN products

C8_OneSettingsRecord ==
    lastpw # "" =>
        /\ Len(app_settings) = 1
        /\ app_settings[1].update_password = <<lastpw>>

\* C8 witness: the table was empty, a password change created the row, and the
\* row holds the password "A" set last
C8_Witness ==
    created /\ lastpw = "A" /\ app_settings = <<[update_password |-> <<"A">>]>>

\* C9 as claimed: in the history table pct_change is missing when old_price is
\* 0 and is round((new_price - old_price) / old_price * 100, 2) otherwise.
C9_PctChange ==
    \A k \in DOMAIN page.view :
        LET r == page.view[k]
        IN IF r.old_price = 0
           THEN r.pct_change.kind = "NaN"
           ELSE r.pct_change =
                  [kind |-> "num",
                   val |-> RoundHalfEven((r.new_price - r.old_price) * 10000,
                                         r.old_price)]

\* C10 as claimed (single session): every price_history row's old_price is the
\* new_price of the preceding row of the same product.
C10_SingleSessionChain ==
    SingleSession =>
        \A i, j \in DOMAIN price_history :
            Consecutive(i, j) =>
                price_history[j].old_price = price_history[i].new_price

\* C10 amended (single session): a row's old_price differs from the new_price
\* of the preceding row of the same product only if the changePrice that wrote
\* the preceding row failed before it updated the product.
C10_SingleSessionChainUnlessFailed ==
    SingleSession =>
        \A i, j \in DOMAIN price_history :
            Consecutive(i, j) =>
                \/ price_history[j].old_price = price_history[i].new_price
                \/ i \in orphans

\* C10 witness: two sessions, both changePrice calls completed, no failed
\* write, and a row whose old_price is not the new_price of the preceding row
\* of the product
C10_Witness ==
    /\ ~SingleSession
    /\ orphans = {}
    /\ \A s \in AllSessions : pc[s] = "idle"
    /\ \E i, j \in DOMAIN price_history :
          /\ Consecutive(i, j)
          /\ price_history[j].old_price # price_history[i].new_price

====
